---- MODULE Spec2Model ----
(***************************************************************************)
(* State-machine model of the geocoin cache game (src/src/main.ts).        *)
(*                                                                         *)
(* Units.  Latitudes and longitudes are integers counting micro-degrees    *)
(* (1e-6 degree), so TILE_DEGREES = 0.0001 degree is 100 and the start     *)
(* position 36.98949379578401, -122.06277128548504 is 36989494, -122062771.*)
(* luck() values are integers counting hundredths, so 0.1 is 10.           *)
(* Arithmetic on positions is exact except for the one place where the     *)
(* binary64 rounding of the program changes a result: the quotient         *)
(* (i * TILE_DEGREES) / TILE_DEGREES taken by latLngToCell (see            *)
(* QuotientBelowLat).                                                      *)
(***************************************************************************)
EXTENDS Integers, Sequences, FiniteSets, TLC

(* ---------------------------- bounds ---------------------------------- *)
\* longest location history a session is driven to
MaxHistory == 2
\* the popups the player reaches: cells at most this far from the player's cell
ClickRange == 1
\* how many coin transfers (collects and deposits that move coins) are driven
MaxTransfers == 2
\* longest ledger a Cache taken by itself starts with
MaxLedger == 2
\* how many collect and deposit buttons of the popup-driven variant are pressed
MaxPresses == 3
\* most caches of the popup-driven variant whose popup is opened
MaxOpened == 2
\* how many results of latLngToCell are kept
MaxLookups == 3
MaxErrors == 2
MaxPath == 3
MaxMarkers == 2
MaxResets == 1

(* ------------------------ program constants --------------------------- *)
PLAYER_LAT == 36989494
PLAYER_LNG == 0 - 122062771
TILE_DEGREES == 100
NEIGHBORHOOD_SIZE == 8
CACHE_SPAWN_PROBABILITY == 10

\* locationWatcher = null
Null == 0

(* ----------------------------- state ---------------------------------- *)
VARIABLES
  caches,           \* Map<string, Cache> in insertion order: Seq of [cell, coins]
  playerCoins,      \* Coin[]
  playerLat,
  playerLng,
  locationWatcher,  \* Null or the id of the geolocation watch
  locationHistory,  \* [lat, lng][]
  gameState,        \* localStorage "gameState": <<>> when absent, else <<snapshot>>
  onMap,            \* cells of the registered caches whose marker is on the map
  watches,          \* ids of the watches registered with navigator.geolocation
  transfers         \* number of coin transfers driven so far

vars == <<caches, playerCoins, playerLat, playerLng, locationWatcher,
          locationHistory, gameState, onMap, watches, transfers>>

\* One Cache object taken by itself, the unit its two methods are exercised on
VARIABLES
  aCache,           \* a Cache: [cell, coins]
  aMemento,         \* the string handed to aCache.fromMemento
  outcome           \* how the last method call ended, "none" before any call

cacheVars == <<aCache, aMemento, outcome>>

\* The popup-driven variant (src/unnamed/part_000): its GameState object, the
\* cache markers on its map, the open popup, and where its script stands
VARIABLES
  playerMarker,     \* state.playerMarker.getLatLng(): <<lat, lng>>
  playerPath,       \* state.playerPath
  playerPoints,     \* state.playerPoints
  playerInventory,  \* state.playerInventory: CacheCoin[]
  cacheCoins,       \* state.cacheCoins: function from the cells with an entry to CacheCoin[]
  cacheMarkers,     \* function from the cells (i, j) with a marker to the number of markers spawnCache made for the cell
  openPopup,        \* <<>> or <<cell>>: the cell whose popup is open
  popupArray,       \* the array `coins` the content function of the open popup holds
  pc,               \* "move", "reset", "idle": the next module-level statement
  presses           \* number of collect and deposit buttons pressed so far

unnamedVars == <<playerMarker, playerPath, playerPoints, playerInventory,
                 cacheCoins, cacheMarkers, openPopup, popupArray, pc, presses>>

\* A second session of main.ts, started with no snapshot in another browser:
\* its registry, position and history
VARIABLES caches2, playerLat2, playerLng2, locationHistory2

session2Vars == <<caches2, playerLat2, playerLng2, locationHistory2>>

\* History of the last collect that moved coins: <<>>, or one record with its
\* cell, the ledger it took, the inventory it met and whether a deposit into
\* the same cache has followed
VARIABLES roundTrip

\* The console: the number of lines console.error has written
VARIABLES consoleErrors

traceVars == <<roundTrip, consoleErrors>>

\* Cell objects: the flyweight table of main.ts and the objects handed out
VARIABLES
  knownTiles,       \* Map<string, Cell> of main.ts: function from (i, j) to the object stored
  heap,             \* number of Cell objects created so far; an object is named by its number
  returned          \* what latLngToCell has returned: records [program, cell, object]

cellVars == <<knownTiles, heap, returned>>

\* The page: whether the module-level statements ran to their end, so that
\* the click listeners of lines 401-441 are registered
VARIABLES listening

\* the state outside main.ts's module state
offPageVars == <<cacheVars, unnamedVars, session2Vars, traceVars, cellVars>>

\* The map besides onMap, and the confirmed resets counted
VARIABLES
  staleMarkers,     \* cells with a marker on the map whose cache the registry no longer holds
  resets            \* number of resets confirmed so far

mapVars == <<staleMarkers, resets>>

auxVars == <<offPageVars, listening, mapVars>>

allVars == <<vars, auxVars>>

(* --------------------------- Spawn Oracle ----------------------------- *)
\* luck.ts is imported, not part of the sources: a deterministic hash of the
\* seed string into [0, 1), here into 0..99 hundredths.  This one passes the
\* existence test in about one cell of forty around the start position.
\* The seed strings are `cache_at_${i},${j}` (tag "cache_at"), `${i},${j},coins`
\* (tag "coins") and `${i},${j}` (tag "cell"); different strings hash apart.
luck(seed) ==
  IF seed.tag = "cache_at"
    THEN LET h == (7 * seed.i + 23 * seed.j + 23) % 400
         IN IF h < 100 THEN h ELSE 10 + (h % 90)
    ELSE IF seed.tag = "cell"
      THEN LET h == (13 * seed.i + 29 * seed.j + 1) % 400
           IN IF h < 100 THEN h ELSE 10 + (h % 90)
      ELSE (23 * seed.i + 7 * seed.j + 3) % 100

(* ----------------------------- Cell Index ----------------------------- *)
\* Rows i for which the binary64 quotient (i * 0.0001) / 0.0001 is just below
\* i, so that Math.floor of it is i - 1 (369899 * 0.0001 / 0.0001 =
\* 369898.99999999994).  Listed for rows 369854..369934; the columns
\* -1220668..-1220588 have no such value.
QuotientBelowLat == {369854, 369869, 369884, 369899, 369914, 369916, 369929, 369931}
QuotientBelowLng == {}

\* Math.floor(x / TILE_DEGREES).  A multiple of TILE_DEGREES stands for the
\* double produced by cell.i * TILE_DEGREES.
FloorQuotient(x, below) ==
  IF x % TILE_DEGREES = 0 /\ (x \div TILE_DEGREES) \in below
    THEN (x \div TILE_DEGREES) - 1
    ELSE x \div TILE_DEGREES

latLngToCell(lat, lng) ==
  [i |-> FloorQuotient(lat, QuotientBelowLat),
   j |-> FloorQuotient(lng, QuotientBelowLng)]

(* ------------------------ Map<string, Cache> -------------------------- *)
\* the key `${cell.i},${cell.j}` identifies the pair (i, j)
has(cs, cell) == \E k \in 1..Len(cs) : cs[k].cell = cell

get(cs, cell) == cs[CHOOSE k \in 1..Len(cs) : cs[k].cell = cell]

\* Map.set: an existing key keeps its place in the iteration order
set(cs, cache) ==
  IF has(cs, cache.cell)
    THEN [k \in 1..Len(cs) |-> IF cs[k].cell = cache.cell THEN cache ELSE cs[k]]
    ELSE Append(cs, cache)

cells(cs) == {cs[k].cell : k \in 1..Len(cs)}

(* --------------------------- Cache, memento --------------------------- *)
\* A JSON text of an array of coin objects is the sequence of its elements'
\* texts.  The text of one element {cell: {i, j}, serial} is <<i, j, serial>>;
\* <<i, j>> is the text of an object without a serial property (JSON.stringify
\* leaves out an undefined property, JSON.parse gives an object without it);
\* a shorter element is a text that breaks off inside the element.
coinToJSON(coin) ==
  IF "serial" \in DOMAIN coin
    THEN <<coin.cell.i, coin.cell.j, coin.serial>>
    ELSE <<coin.cell.i, coin.cell.j>>

coinFromJSON(t) ==
  IF Len(t) >= 3
    THEN [cell |-> [i |-> t[1], j |-> t[2]], serial |-> t[3]]
    ELSE [cell |-> [i |-> t[1], j |-> t[2]]]

\* JSON.parse throws a SyntaxError on a text that is not JSON
JSONparseThrows(text) == \E k \in 1..Len(text) : Len(text[k]) < 2

\* mutant: the array is read back to front
parseCoins_reversed(text) ==
  [k \in 1..Len(text) |-> coinFromJSON(text[Len(text) + 1 - k])]

\* JSON.stringify and JSON.parse of a Coin[]
stringifyCoins(coins) == [k \in 1..Len(coins) |-> coinToJSON(coins[k])]
parseCoins(text) == [k \in 1..Len(text) |-> coinFromJSON(text[k])]

toMemento(coins) == stringifyCoins(coins)
fromMemento(memento) == parseCoins(memento)

initializeCache(cell, coins) == [cell |-> cell, coins |-> coins]

\* mutant: the serials start at 1
createCache_serialFromOne(cs, cell) ==
  LET coinCount == (luck([tag |-> "coins", i |-> cell.i, j |-> cell.j]) * 10) \div 100
      coins == [k \in 1..coinCount |-> [cell |-> cell, serial |-> k]]
  IN set(cs, initializeCache(cell, coins))

\* mutant: the count depends on how many caches are registered already
createCache_byRegistrySize(cs, cell) ==
  LET coinCount ==
        (((luck([tag |-> "coins", i |-> cell.i, j |-> cell.j]) + 10 * Len(cs)) % 100) * 10) \div 100
      coins == [k \in 1..coinCount |-> [cell |-> cell, serial |-> k - 1]]
  IN set(cs, initializeCache(cell, coins))

createCache(cs, cell) ==
  LET coinCount == (luck([tag |-> "coins", i |-> cell.i, j |-> cell.j]) * 10) \div 100
      coins == [k \in 1..coinCount |-> [cell |-> cell, serial |-> k - 1]]
  IN set(cs, initializeCache(cell, coins))

(* -------------------------- generateCaches ---------------------------- *)
ScanWidth == 2 * NEIGHBORHOOD_SIZE + 1

\* the cell of the k-th iteration of the double loop, i outer and j inner
ScanCell(centerLat, centerLng, k) ==
  LET i == ((k - 1) \div ScanWidth) - NEIGHBORHOOD_SIZE
      j == ((k - 1) % ScanWidth) - NEIGHBORHOOD_SIZE
  IN latLngToCell(centerLat + i * TILE_DEGREES, centerLng + j * TILE_DEGREES)

\* mutant: the registry is not consulted, a registered cell that passes the
\* existence test gets a new cache
RECURSIVE spawnEach_ignoresRegistry(_, _, _)
spawnEach_ignoresRegistry(cs, passing, n) ==
  IF n > Len(passing) THEN cs
  ELSE spawnEach_ignoresRegistry(createCache(cs, passing[n]), passing, n + 1)

\* The loop body, for the scanned cells that pass the existence test (the
\* body does nothing for the others): a cell without a cache gets one.
RECURSIVE spawnEach(_, _, _)
spawnEach(cs, passing, n) ==
  IF n > Len(passing) THEN cs
  ELSE spawnEach(IF ~has(cs, passing[n]) THEN createCache(cs, passing[n]) ELSE cs,
                 passing, n + 1)

ExistenceTest(cell) ==
  luck([tag |-> "cache_at", i |-> cell.i, j |-> cell.j]) < CACHE_SPAWN_PROBABILITY

\* mutant: both loops stop before NEIGHBORHOOD_SIZE
generateCaches_exclusive(cs, centerLat, centerLng) ==
  LET scan == [k \in 1..(ScanWidth * ScanWidth) |->
                 ScanCell(centerLat, centerLng,
                          IF (k - 1) \div ScanWidth < ScanWidth - 1
                             /\ (k - 1) % ScanWidth < ScanWidth - 1
                            THEN k ELSE 1)]
  IN spawnEach(cs, SelectSeq(scan, ExistenceTest), 1)

generateCaches(cs, centerLat, centerLng) ==
  LET scan == [k \in 1..(ScanWidth * ScanWidth) |-> ScanCell(centerLat, centerLng, k)]
  IN spawnEach(cs, SelectSeq(scan, ExistenceTest), 1)

(* ------------------------ updateVisibleCaches ------------------------- *)
\* Math.sqrt(dx^2 + dy^2) <= NEIGHBORHOOD_SIZE * TILE_DEGREES
InDisplayRange(cell, lat, lng) ==
  LET dx == cell.i * TILE_DEGREES - lat
      dy == cell.j * TILE_DEGREES - lng
  IN dx * dx + dy * dy
       <= (NEIGHBORHOOD_SIZE * TILE_DEGREES) * (NEIGHBORHOOD_SIZE * TILE_DEGREES)

\* markers of registered caches are added or removed; other markers are untouched
updateVisibleCaches(cs, lat, lng) == {c \in cells(cs) : InDisplayRange(c, lat, lng)}

(* ----------------------------- persistence ---------------------------- *)
Snapshot(lat, lng, coins, history, cs) ==
  [playerLat |-> lat,
   playerLng |-> lng,
   playerCoins |-> stringifyCoins(coins),
   locationHistory |-> history,
   caches |-> [k \in 1..Len(cs) |->
                 [lat |-> cs[k].cell.i * TILE_DEGREES,
                  lng |-> cs[k].cell.j * TILE_DEGREES,
                  memento |-> toMemento(cs[k].coins)]]]

saveGameState(lat, lng, coins, history, cs) == <<Snapshot(lat, lng, coins, history, cs)>>

\* fromMemento throws for no entry of the snapshot
LoadCompletes(saved) == \A k \in 1..Len(saved) : ~JSONparseThrows(saved[k].memento)

\* the forEach of lines 251-265; an exception thrown by fromMemento ends it
\* before the entry is registered
RECURSIVE loadCaches(_, _, _)
loadCaches(cs, saved, k) ==
  IF k > Len(saved) \/ JSONparseThrows(saved[k].memento) THEN cs
  ELSE LET cell == latLngToCell(saved[k].lat, saved[k].lng)
           cache == initializeCache(cell, fromMemento(saved[k].memento))
       IN loadCaches(set(cs, cache), saved, k + 1)

\* The module-level statements (lines 31-39, 397-441) on a page load.  An
\* exception thrown inside loadGameState ends the script: no marker is put on
\* the map and no listener is registered.
Startup(stored) ==
  IF stored # <<>>
    THEN LET state == stored[1]
             cs == loadCaches(<<>>, state.caches, 1)
             completes == LoadCompletes(state.caches)
         IN [caches |-> cs,
             playerCoins |-> parseCoins(state.playerCoins),
             playerLat |-> state.playerLat,
             playerLng |-> state.playerLng,
             locationHistory |-> state.locationHistory,
             onMap |-> IF completes
                         THEN updateVisibleCaches(cs, state.playerLat, state.playerLng)
                         ELSE {},
             listening |-> completes]
    ELSE LET cs == generateCaches(<<>>, PLAYER_LAT, PLAYER_LNG)
         IN [caches |-> cs,
             playerCoins |-> <<>>,
             playerLat |-> PLAYER_LAT,
             playerLng |-> PLAYER_LNG,
             locationHistory |-> <<>>,
             onMap |-> updateVisibleCaches(cs, PLAYER_LAT, PLAYER_LNG),
             listening |-> TRUE]

loadGameState(stored) ==
  LET s == Startup(stored)
  IN /\ caches' = s.caches
     /\ playerCoins' = s.playerCoins
     /\ playerLat' = s.playerLat
     /\ playerLng' = s.playerLng
     /\ locationHistory' = s.locationHistory
     /\ onMap' = s.onMap

InitMain ==
  LET s == Startup(<<>>)
  IN /\ caches = s.caches
     /\ playerCoins = s.playerCoins
     /\ playerLat = s.playerLat
     /\ playerLng = s.playerLng
     /\ locationHistory = s.locationHistory
     /\ onMap = s.onMap
     /\ locationWatcher = Null
     /\ gameState = <<>>
     /\ watches = {}
     /\ transfers = 0

(* ------------------------- one Cache by itself ------------------------ *)
\* the cells and coins the unit is exercised with
UnitCells ==
  LET here == latLngToCell(PLAYER_LAT, PLAYER_LNG)
  IN {here, [i |-> here.i + 1, j |-> here.j]}

CoinPool == {[cell |-> c, serial |-> n] : c \in UnitCells, n \in 0..1}

Ledgers == UNION {[1..n -> CoinPool] : n \in 0..MaxLedger}

\* strings that are not the memento of a ledger of coins: a negative serial,
\* a missing serial, a text that breaks off
CorruptPayloads(cell) ==
  {<<<<cell.i, cell.j, 0 - 1>>>>, <<<<cell.i, cell.j>>>>, <<<<cell.i>>>>}

\* a Cache nobody has called yet
InitCache(cell, coins) ==
  /\ aCache = initializeCache(cell, coins)
  /\ aMemento = toMemento(<<>>)
  /\ outcome = "none"

\* aMemento = aCache.toMemento()
ToMementoCall ==
  /\ aMemento' = toMemento(aCache.coins)
  /\ outcome' = "toMemento returned"
  /\ UNCHANGED <<aCache, vars, listening, mapVars, unnamedVars, session2Vars, traceVars, cellVars>>

\* aCache.fromMemento(aMemento): the assignment happens unless JSON.parse throws
FromMementoCall ==
  /\ IF JSONparseThrows(aMemento)
       THEN /\ outcome' = "fromMemento threw"
            /\ UNCHANGED aCache
       ELSE /\ aCache' = [aCache EXCEPT !.coins = fromMemento(aMemento)]
            /\ outcome' = "fromMemento returned"
  /\ UNCHANGED <<aMemento, vars, listening, mapVars, unnamedVars, session2Vars, traceVars, cellVars>>

\* the stored string is replaced by one that is not a memento of coins
MementoReplaced ==
  /\ aMemento' \in CorruptPayloads(aCache.cell)
  /\ outcome' = "none"
  /\ UNCHANGED <<aCache, vars, listening, mapVars, unnamedVars, session2Vars, traceVars, cellVars>>

(* ---------------- the popup-driven variant (part_000) ------------------ *)
OAKES_CLASSROOM == <<PLAYER_LAT, PLAYER_LNG>>

\* Math.floor(lat * 1e4), Math.floor(lng * 1e4)
unnamed_latLngToCell(lat, lng) ==
  [i |-> lat \div TILE_DEGREES, j |-> lng \div TILE_DEGREES]

initializeGameState ==
  /\ playerMarker = OAKES_CLASSROOM
  /\ playerPath = <<OAKES_CLASSROOM>>
  /\ playerPoints = 0
  /\ playerInventory = <<>>
  /\ cacheCoins = <<>>
  /\ cacheMarkers = <<>>
  /\ openPopup = <<>>
  /\ popupArray = <<>>
  /\ pc = "move"
  /\ presses = 0

\* state.cacheCoins.set(cacheKey, coins)
cacheCoinsSet(map, cell, coins) ==
  [c \in (DOMAIN map) \cup {cell} |-> IF c = cell THEN coins ELSE map[c]]

\* the popup content function of spawnCache up to line 115
popupCoins(map, cell) ==
  LET coins == IF cell \in DOMAIN map THEN map[cell] ELSE <<>>
      initialCoins == (luck([tag |-> "coins", i |-> cell.i, j |-> cell.j]) * 10) \div 100
  IN IF Len(coins) = 0
       THEN cacheCoinsSet(map, cell,
              [serial \in 1..initialCoins |-> [original |-> cell, serial |-> serial - 1]])
       ELSE map

\* the cells of the double loop of movePlayer for which spawnCache is called
unnamed_spawned(newLat, newLng) ==
  LET new == unnamed_latLngToCell(newLat, newLng)
  IN {cell \in {[i |-> new.i + di, j |-> new.j + dj] :
                  di \in (0 - NEIGHBORHOOD_SIZE)..NEIGHBORHOOD_SIZE,
                  dj \in (0 - NEIGHBORHOOD_SIZE)..NEIGHBORHOOD_SIZE} :
        luck([tag |-> "cell", i |-> cell.i, j |-> cell.j]) < CACHE_SPAWN_PROBABILITY}

\* spawnCache up to line 105, for every cell of `spawned`: one more marker each
addMarkers(markers, spawned) ==
  [c \in (DOMAIN markers) \cup spawned |->
     (IF c \in DOMAIN markers THEN markers[c] ELSE 0) + (IF c \in spawned THEN 1 ELSE 0)]

unnamed_movePlayer(deltaI, deltaJ) ==
  LET newLat == playerMarker[1] + deltaI * TILE_DEGREES
      newLng == playerMarker[2] + deltaJ * TILE_DEGREES
  IN /\ playerMarker' = <<newLat, newLng>>
     /\ playerPath' = Append(playerPath, <<newLat, newLng>>)
     /\ cacheMarkers' = addMarkers(cacheMarkers, unnamed_spawned(newLat, newLng))
     /\ UNCHANGED <<playerPoints, playerInventory, cacheCoins, openPopup, popupArray>>

resetGame_keepsInventory(confirmation) ==
  IF confirmation = "yes"
    THEN /\ playerMarker' = OAKES_CLASSROOM
         /\ playerPath' = <<OAKES_CLASSROOM>>
         /\ playerPoints' = 0
         /\ cacheCoins' = <<>>
         /\ UNCHANGED <<playerInventory, cacheMarkers, openPopup, popupArray>>
    ELSE UNCHANGED <<playerMarker, playerPath, playerPoints, playerInventory,
                     cacheCoins, cacheMarkers, openPopup, popupArray>>

\* the markers stay on the map, and so does the open popup with its array
resetGame(confirmation) ==
  IF confirmation = "yes"
    THEN /\ playerMarker' = OAKES_CLASSROOM
         /\ playerPath' = <<OAKES_CLASSROOM>>
         /\ playerPoints' = 0
         /\ playerInventory' = <<>>
         /\ cacheCoins' = <<>>
         /\ UNCHANGED <<cacheMarkers, openPopup, popupArray>>
    ELSE UNCHANGED <<playerMarker, playerPath, playerPoints, playerInventory,
                     cacheCoins, cacheMarkers, openPopup, popupArray>>

\* line 222
ExampleMove ==
  /\ pc = "move"
  /\ unnamed_movePlayer(1, 0)
  /\ pc' = "reset"
  /\ UNCHANGED presses
  /\ UNCHANGED <<vars, cacheVars, listening, mapVars, session2Vars, traceVars, cellVars>>

\* line 223
ExampleReset ==
  /\ pc = "reset"
  /\ \E confirmation \in {"yes", "no"} : resetGame(confirmation)
  /\ pc' = "idle"
  /\ UNCHANGED presses
  /\ UNCHANGED <<vars, cacheVars, listening, mapVars, session2Vars, traceVars, cellVars>>

\* a marker is clicked: its popup opens and leaflet calls the content function
PopupOpens ==
  /\ pc = "idle"
  /\ \E cell \in DOMAIN cacheMarkers :
       /\ cell \in DOMAIN cacheCoins \/ Cardinality(DOMAIN cacheCoins) < MaxOpened
       /\ cacheCoins' = popupCoins(cacheCoins, cell)
       /\ popupArray' = popupCoins(cacheCoins, cell)[cell]
       /\ openPopup' = <<cell>>
  /\ UNCHANGED <<playerMarker, playerPath, playerPoints, playerInventory,
                 cacheMarkers, pc, presses>>
  /\ UNCHANGED <<vars, cacheVars, listening, mapVars, session2Vars, traceVars, cellVars>>

\* the collect button of one coin of the open popup
CollectButton ==
  /\ openPopup # <<>>
  /\ presses < MaxPresses
  /\ presses' = presses + 1
  /\ LET cell == openPopup[1]
         coins == popupArray
     IN \E index \in 1..Len(coins) :
          /\ popupArray' = SubSeq(coins, 1, index - 1) \o SubSeq(coins, index + 1, Len(coins))
          /\ cacheCoins' = cacheCoinsSet(cacheCoins, cell, popupArray')
          /\ playerPoints' = playerPoints + 1
          /\ playerInventory' = Append(playerInventory, coins[index])
  /\ UNCHANGED <<playerMarker, playerPath, cacheMarkers, openPopup, pc>>
  /\ UNCHANGED <<vars, cacheVars, listening, mapVars, session2Vars, traceVars, cellVars>>

\* the deposit button of the open popup
DepositButton ==
  /\ openPopup # <<>>
  /\ presses < MaxPresses
  /\ presses' = presses + 1
  /\ IF playerPoints > 0 /\ Len(playerInventory) > 0
       THEN LET cell == openPopup[1]
                coin == playerInventory[Len(playerInventory)]
            IN /\ playerInventory' = SubSeq(playerInventory, 1, Len(playerInventory) - 1)
               /\ popupArray' = Append(popupArray, coin)
               /\ cacheCoins' = cacheCoinsSet(cacheCoins, cell, popupArray')
               /\ playerPoints' = playerPoints - 1
       ELSE UNCHANGED <<playerInventory, cacheCoins, popupArray, playerPoints>>
  /\ UNCHANGED <<playerMarker, playerPath, cacheMarkers, openPopup, pc>>
  /\ UNCHANGED <<vars, cacheVars, listening, mapVars, session2Vars, traceVars, cellVars>>

\* the steps movePlayer is called with once the script has run
CallDeltas == {<<1, 0>>, <<0 - 1, 0>>, <<0, 1>>}

\* movePlayer called again after the script of lines 219-223
MovePlayerCall ==
  /\ pc = "idle"
  /\ Len(playerPath) < MaxPath
  /\ \A c \in DOMAIN cacheMarkers : cacheMarkers[c] < MaxMarkers
  /\ \E d \in CallDeltas : unnamed_movePlayer(d[1], d[2])
  /\ UNCHANGED <<pc, presses>>
  /\ UNCHANGED <<vars, cacheVars, listening, mapVars, session2Vars, traceVars, cellVars>>

\* resetGame called again after the script, with the prompt confirmed
ResetGameCall ==
  /\ pc = "idle"
  /\ resetGame("yes")
  /\ UNCHANGED <<pc, presses>>
  /\ UNCHANGED <<vars, cacheVars, listening, mapVars, session2Vars, traceVars, cellVars>>

\* the variant with movePlayer and resetGame called any number of times
NextUnnamedCalls ==
  \/ ExampleMove
  \/ ExampleReset
  \/ MovePlayerCall
  \/ ResetGameCall
  \/ PopupOpens
  \/ CollectButton
  \/ DepositButton

NextUnnamed ==
  \/ ExampleMove
  \/ ExampleReset
  \/ PopupOpens
  \/ CollectButton
  \/ DepositButton

(* ---------------------------- Cell objects ---------------------------- *)
NoLookups ==
  /\ knownTiles = <<>>
  /\ heap = 0
  /\ returned = {}

\* coordinates looked up: the start position, another point of its cell and
\* a point of the cell north of it
LookupPositions ==
  {<<PLAYER_LAT, PLAYER_LNG>>, <<PLAYER_LAT + 1, PLAYER_LNG + 1>>,
   <<PLAYER_LAT + TILE_DEGREES, PLAYER_LNG>>}

\* coordinates loadGameState looks up: cell.i * TILE_DEGREES of two saved rows,
\* 369898 and 369899, that floor to the same row
SavedPositions == {<<36989800, PLAYER_LNG>>, <<36989900, PLAYER_LNG>>}

\* latLngToCell of main.ts: the object stored under the key, created when the
\* key is new
LookupMain ==
  /\ Cardinality(returned) < MaxLookups
  /\ \E p \in LookupPositions \cup SavedPositions :
       LET key == latLngToCell(p[1], p[2])
           known == key \in DOMAIN knownTiles
           object == IF known THEN knownTiles[key] ELSE heap + 1
       IN /\ knownTiles' = IF known THEN knownTiles
                            ELSE [c \in (DOMAIN knownTiles) \cup {key} |->
                                    IF c = key THEN object ELSE knownTiles[c]]
          /\ heap' = IF known THEN heap ELSE heap + 1
          /\ returned' = returned \cup {[program |-> "main", cell |-> key, object |-> object]}
  /\ UNCHANGED <<vars, cacheVars, unnamedVars, session2Vars, traceVars, listening, mapVars>>

\* latLngToCell of the popup-driven variant: an object literal
LookupUnnamed ==
  /\ Cardinality(returned) < MaxLookups
  /\ \E p \in LookupPositions :
       /\ heap' = heap + 1
       /\ returned' = returned \cup {[program |-> "unnamed",
                                       cell |-> unnamed_latLngToCell(p[1], p[2]),
                                       object |-> heap + 1]}
  /\ UNCHANGED <<vars, cacheVars, unnamedVars, session2Vars, traceVars, listening, mapVars,
                 knownTiles>>

NextCells == LookupMain \/ LookupUnnamed

(* --------------------------- second session --------------------------- *)
\* the second browser has not opened the page
NoSession2 ==
  /\ caches2 = <<>>
  /\ playerLat2 = PLAYER_LAT
  /\ playerLng2 = PLAYER_LNG
  /\ locationHistory2 = <<>>

\* the second browser has opened the page with an empty localStorage
InitSession2 ==
  LET s == Startup(<<>>)
  IN /\ caches2 = s.caches
     /\ playerLat2 = s.playerLat
     /\ playerLng2 = s.playerLng
     /\ locationHistory2 = s.locationHistory

InitAux ==
  /\ InitCache(latLngToCell(PLAYER_LAT, PLAYER_LNG), <<>>)
  /\ initializeGameState
  /\ NoSession2
  /\ roundTrip = <<>>
  /\ consoleErrors = 0
  /\ NoLookups
  /\ listening = Startup(<<>>).listening
  /\ staleMarkers = {}
  /\ resets = 0

Init == InitMain /\ InitAux

NextCache == ToMementoCall \/ FromMementoCall \/ MementoReplaced

\* a Cache holding any ledger of the pool
InitCacheUnit ==
  /\ InitMain
  /\ \E cell \in UnitCells : \E coins \in Ledgers : InitCache(cell, coins)
  /\ initializeGameState
  /\ NoSession2
  /\ roundTrip = <<>>
  /\ consoleErrors = 0
  /\ NoLookups
  /\ listening = Startup(<<>>).listening
  /\ staleMarkers = {}
  /\ resets = 0

SpecCache == InitCacheUnit /\ [][NextCache]_allVars

(* ------------------------------ handlers ------------------------------ *)
\* mutant: the ledger is copied to the inventory but not emptied
collectCoins_keepsLedger(cell) ==
  IF has(caches, cell) /\ Len(get(caches, cell).coins) > 0
    THEN LET coins == playerCoins \o get(caches, cell).coins
         IN /\ playerCoins' = coins
            /\ gameState' = saveGameState(playerLat, playerLng, coins, locationHistory, caches)
            /\ transfers' = transfers + 1
            /\ UNCHANGED <<caches, playerLat, playerLng, locationWatcher, locationHistory,
                           onMap, watches>>
    ELSE UNCHANGED vars

\* mutant: the ledger is put in front of the inventory
collectCoins_prepends(cell) ==
  IF has(caches, cell) /\ Len(get(caches, cell).coins) > 0
    THEN LET cache == get(caches, cell)
             coins == cache.coins \o playerCoins
             cs == set(caches, [cache EXCEPT !.coins = <<>>])
         IN /\ playerCoins' = coins
            /\ caches' = cs
            /\ gameState' = saveGameState(playerLat, playerLng, coins, locationHistory, cs)
            /\ transfers' = transfers + 1
            /\ UNCHANGED <<playerLat, playerLng, locationWatcher, locationHistory,
                           onMap, watches>>
    ELSE UNCHANGED vars

collectCoins(cell) ==
  IF has(caches, cell) /\ Len(get(caches, cell).coins) > 0
    THEN LET cache == get(caches, cell)
             coins == playerCoins \o cache.coins
             cs == set(caches, [cache EXCEPT !.coins = <<>>])
         IN /\ playerCoins' = coins
            /\ caches' = cs
            /\ gameState' = saveGameState(playerLat, playerLng, coins, locationHistory, cs)
            /\ transfers' = transfers + 1
            /\ UNCHANGED <<playerLat, playerLng, locationWatcher, locationHistory,
                           onMap, watches>>
    ELSE UNCHANGED vars

\* mutant: the inventory replaces the ledger
depositCoins_overwrites(cell) ==
  IF has(caches, cell) /\ Len(playerCoins) > 0
    THEN LET cache == get(caches, cell)
             cs == set(caches, [cache EXCEPT !.coins = playerCoins])
         IN /\ playerCoins' = <<>>
            /\ caches' = cs
            /\ gameState' = saveGameState(playerLat, playerLng, <<>>, locationHistory, cs)
            /\ transfers' = transfers + 1
            /\ UNCHANGED <<playerLat, playerLng, locationWatcher, locationHistory,
                           onMap, watches>>
    ELSE UNCHANGED vars

\* mutant: the inventory is deposited last coin first
depositCoins_reversed(cell) ==
  IF has(caches, cell) /\ Len(playerCoins) > 0
    THEN LET cache == get(caches, cell)
             n == Len(playerCoins)
             cs == set(caches, [cache EXCEPT !.coins =
                     cache.coins \o [k \in 1..n |-> playerCoins[n + 1 - k]]])
         IN /\ playerCoins' = <<>>
            /\ caches' = cs
            /\ gameState' = saveGameState(playerLat, playerLng, <<>>, locationHistory, cs)
            /\ transfers' = transfers + 1
            /\ UNCHANGED <<playerLat, playerLng, locationWatcher, locationHistory,
                           onMap, watches>>
    ELSE UNCHANGED vars

depositCoins(cell) ==
  IF has(caches, cell) /\ Len(playerCoins) > 0
    THEN LET cache == get(caches, cell)
             cs == set(caches, [cache EXCEPT !.coins = cache.coins \o playerCoins])
         IN /\ playerCoins' = <<>>
            /\ caches' = cs
            /\ gameState' = saveGameState(playerLat, playerLng, <<>>, locationHistory, cs)
            /\ transfers' = transfers + 1
            /\ UNCHANGED <<playerLat, playerLng, locationWatcher, locationHistory,
                           onMap, watches>>
    ELSE UNCHANGED vars

\* mutant: the snapshot is written before the caches are generated
updatePlayerPosition_savesEarly(lat, lng) ==
  LET history == Append(locationHistory, <<lat, lng>>)
      cs == generateCaches(caches, lat, lng)
  IN /\ playerLat' = lat
     /\ playerLng' = lng
     /\ locationHistory' = history
     /\ caches' = cs
     /\ onMap' = updateVisibleCaches(cs, lat, lng)
     /\ gameState' = saveGameState(lat, lng, playerCoins, history, caches)
     /\ UNCHANGED <<playerCoins, locationWatcher, watches, transfers>>

updatePlayerPosition(lat, lng) ==
  LET history == Append(locationHistory, <<lat, lng>>)
      cs == generateCaches(caches, lat, lng)
  IN /\ playerLat' = lat
     /\ playerLng' = lng
     /\ locationHistory' = history
     /\ caches' = cs
     /\ onMap' = updateVisibleCaches(cs, lat, lng)
     /\ gameState' = saveGameState(lat, lng, playerCoins, history, cs)
     /\ UNCHANGED <<playerCoins, locationWatcher, watches, transfers>>

movePlayer(dLat, dLng) == updatePlayerPosition(playerLat + dLat, playerLng + dLng)

\* navigator.geolocation.watchPosition returns an id no registered watch uses
watchPosition == CHOOSE id \in 1..(Cardinality(watches) + 1) : id \notin watches

startLocationTracking ==
  /\ locationWatcher' = watchPosition
  /\ watches' = watches \cup {watchPosition}

stopLocationTracking_keepsWatch ==
  IF locationWatcher # Null
    THEN /\ watches' = watches
         /\ locationWatcher' = Null
    ELSE UNCHANGED <<locationWatcher, watches>>

stopLocationTracking ==
  IF locationWatcher # Null
    THEN /\ watches' = watches \ {locationWatcher}
         /\ locationWatcher' = Null
    ELSE UNCHANGED <<locationWatcher, watches>>

resetGameState_keepsTracking(confirmed) ==
  IF confirmed
    THEN LET cs == generateCaches(<<>>, PLAYER_LAT, PLAYER_LNG)
         IN /\ gameState' = <<>>
            /\ playerLat' = PLAYER_LAT
            /\ playerLng' = PLAYER_LNG
            /\ playerCoins' = <<>>
            /\ locationHistory' = <<>>
            /\ UNCHANGED <<locationWatcher, watches>>
            /\ caches' = cs
            /\ onMap' = updateVisibleCaches(cs, PLAYER_LAT, PLAYER_LNG)
            /\ UNCHANGED transfers
    ELSE UNCHANGED vars

resetGameState(confirmed) ==
  IF confirmed
    THEN LET cs == generateCaches(<<>>, PLAYER_LAT, PLAYER_LNG)
         IN /\ gameState' = <<>>
            /\ playerLat' = PLAYER_LAT
            /\ playerLng' = PLAYER_LNG
            /\ playerCoins' = <<>>
            /\ locationHistory' = <<>>
            /\ stopLocationTracking
            /\ caches' = cs
            /\ onMap' = updateVisibleCaches(cs, PLAYER_LAT, PLAYER_LNG)
            /\ UNCHANGED transfers
    ELSE UNCHANGED vars

(* ------------------------------- events ------------------------------- *)
\* the four move buttons
MoveDeltas ==
  {<<TILE_DEGREES, 0>>, <<0 - TILE_DEGREES, 0>>, <<0, 0 - TILE_DEGREES>>, <<0, TILE_DEGREES>>}

\* the position the geolocation watch reports: 21 rows north and 3 columns
\* east of the start cell
GeoSamples == {<<36991515, 0 - 122062437>>}

\* cells whose popup buttons are pressed
ClickCells ==
  LET here == latLngToCell(playerLat, playerLng)
  IN {[i |-> here.i + di, j |-> here.j + dj] :
        di \in (0 - ClickRange)..ClickRange, dj \in (0 - ClickRange)..ClickRange}

MoveClick ==
  /\ listening
  /\ Len(locationHistory) < MaxHistory
  /\ \E d \in MoveDeltas : movePlayer(d[1], d[2])
  /\ UNCHANGED auxVars

PositionSample ==
  /\ locationWatcher # Null
  /\ locationWatcher \in watches
  /\ Len(locationHistory) < MaxHistory
  /\ \E p \in GeoSamples : updatePlayerPosition(p[1], p[2])
  /\ UNCHANGED auxVars

PositionError ==
  /\ locationWatcher # Null
  /\ locationWatcher \in watches
  /\ stopLocationTracking
  /\ UNCHANGED <<caches, playerCoins, playerLat, playerLng, locationHistory,
                 gameState, onMap, transfers>>
  /\ UNCHANGED auxVars

GeolocateClick ==
  /\ listening
  /\ IF locationWatcher = Null THEN startLocationTracking ELSE stopLocationTracking
  /\ UNCHANGED <<caches, playerCoins, playerLat, playerLng, locationHistory,
                 gameState, onMap, transfers>>
  /\ UNCHANGED auxVars

CollectClick ==
  /\ listening
  /\ transfers < MaxTransfers
  /\ \E cell \in ClickCells : collectCoins(cell)
  /\ UNCHANGED auxVars

DepositClick ==
  /\ listening
  /\ transfers < MaxTransfers
  /\ \E cell \in ClickCells : depositCoins(cell)
  /\ UNCHANGED auxVars

ResetClick ==
  /\ listening
  /\ \E confirmed \in BOOLEAN : resetGameState(confirmed)
  /\ UNCHANGED auxVars

\* the page is closed and opened again
Reload ==
  /\ loadGameState(gameState)
  /\ locationWatcher' = Null
  /\ watches' = {}
  /\ listening' = Startup(gameState).listening
  /\ staleMarkers' = {}
  /\ UNCHANGED <<gameState, transfers, resets>>
  /\ UNCHANGED offPageVars

\* updatePlayerPosition in the second session, from a move button or from the
\* geolocation watch
Session2Moves ==
  /\ Len(locationHistory2) < MaxHistory
  /\ \E p \in {<<playerLat2 + d[1], playerLng2 + d[2]>> : d \in MoveDeltas} \cup GeoSamples :
       /\ playerLat2' = p[1]
       /\ playerLng2' = p[2]
       /\ locationHistory2' = Append(locationHistory2, <<p[1], p[2]>>)
       /\ caches2' = generateCaches(caches2, p[1], p[2])
  /\ UNCHANGED <<vars, cacheVars, unnamedVars, listening, mapVars, traceVars, cellVars>>

\* CollectClick, with the history of the collect kept
CollectClickTraced ==
  /\ listening
  /\ transfers < MaxTransfers
  /\ \E cell \in ClickCells :
       /\ collectCoins(cell)
       /\ roundTrip' =
            IF has(caches, cell) /\ Len(get(caches, cell).coins) > 0
              THEN <<[cell |-> cell, coins |-> get(caches, cell).coins,
                      inventory |-> playerCoins, deposited |-> FALSE]>>
              ELSE roundTrip
  /\ UNCHANGED <<cacheVars, unnamedVars, session2Vars, listening, mapVars, cellVars, consoleErrors>>

\* DepositClick, with the history of the last collect closed: a deposit into
\* the cache collected from is noted, a deposit elsewhere ends the history
DepositClickTraced ==
  /\ listening
  /\ transfers < MaxTransfers
  /\ \E cell \in ClickCells :
       /\ depositCoins(cell)
       /\ roundTrip' =
            IF has(caches, cell) /\ Len(playerCoins) > 0
              THEN IF roundTrip # <<>> /\ roundTrip[1].cell = cell /\ ~roundTrip[1].deposited
                     THEN <<[roundTrip[1] EXCEPT !.deposited = TRUE]>>
                     ELSE <<>>
              ELSE roundTrip
  /\ UNCHANGED <<cacheVars, unnamedVars, session2Vars, listening, mapVars, cellVars, consoleErrors>>

\* PositionError, with the line its callback writes on the console counted
PositionErrorLogged ==
  /\ locationWatcher # Null
  /\ locationWatcher \in watches
  /\ consoleErrors < MaxErrors
  /\ consoleErrors' = consoleErrors + 1
  /\ stopLocationTracking
  /\ UNCHANGED <<caches, playerCoins, playerLat, playerLng, locationHistory,
                 gameState, onMap, transfers>>
  /\ UNCHANGED <<cacheVars, unnamedVars, session2Vars, listening, mapVars, cellVars, roundTrip>>

\* ResetClick, with the markers kept that resetGameState leaves on the map:
\* caches.clear() drops the caches and no line removes their markers
ResetClickMarkers ==
  /\ listening
  /\ \E confirmed \in BOOLEAN :
       /\ resetGameState(confirmed)
       /\ IF confirmed
            THEN /\ resets < MaxResets
                 /\ resets' = resets + 1
                 /\ staleMarkers' = staleMarkers \cup onMap
            ELSE UNCHANGED mapVars
  /\ UNCHANGED <<offPageVars, listening>>

\* the first and the last cache entry of a snapshot
EntriesHit(state) == {1, Len(state.caches)} \cap (1..Len(state.caches))

\* Something other than the page rewrites the memento of one cache entry of
\* the stored snapshot; a snapshot is hit once.
StorageCorrupted ==
  /\ gameState # <<>>
  /\ \A k \in 1..Len(gameState[1].caches) :
       LET entry == gameState[1].caches[k]
       IN entry.memento \notin CorruptPayloads(latLngToCell(entry.lat, entry.lng))
  /\ \E k \in EntriesHit(gameState[1]) :
       LET entry == gameState[1].caches[k]
       IN \E payload \in CorruptPayloads(latLngToCell(entry.lat, entry.lng)) :
            gameState' = <<[gameState[1] EXCEPT !.caches[k].memento = payload]>>
  /\ UNCHANGED <<caches, playerCoins, playerLat, playerLng, locationWatcher,
                 locationHistory, onMap, watches, transfers>>
  /\ UNCHANGED auxVars

Next ==
  \/ MoveClick
  \/ PositionSample
  \/ PositionError
  \/ GeolocateClick
  \/ CollectClick
  \/ DepositClick
  \/ ResetClick
  \/ Reload

Spec == Init /\ [][Next]_allVars

\* the session with a storage that can be rewritten behind the page's back
NextStorage ==
  \/ MoveClick
  \/ CollectClick
  \/ DepositClick
  \/ StorageCorrupted
  \/ Reload

SpecStorage == Init /\ [][NextStorage]_allVars

SpecUnnamed == Init /\ [][NextUnnamed]_allVars

SpecUnnamedCalls == Init /\ [][NextUnnamedCalls]_allVars

\* the session with the history of its collects kept
NextTraced ==
  \/ MoveClick
  \/ GeolocateClick
  \/ PositionSample
  \/ PositionErrorLogged
  \/ CollectClickTraced
  \/ DepositClickTraced

SpecTraced == Init /\ [][NextTraced]_allVars

\* the session with the markers of dropped caches kept
NextMarkers ==
  \/ MoveClick
  \/ CollectClick
  \/ DepositClick
  \/ ResetClickMarkers

SpecMarkers == Init /\ [][NextMarkers]_allVars

\* the session of the geolocate button, the watch's callbacks and resets
NextTracking ==
  \/ GeolocateClick
  \/ PositionSample
  \/ PositionErrorLogged
  \/ MoveClick
  \/ ResetClickMarkers

SpecTracking == Init /\ [][NextTracking]_allVars

SpecCells == Init /\ [][NextCells]_allVars

\* two sessions started with no snapshot, each moved on its own
InitTwoSessions ==
  /\ InitMain
  /\ InitCache(latLngToCell(PLAYER_LAT, PLAYER_LNG), <<>>)
  /\ initializeGameState
  /\ InitSession2
  /\ roundTrip = <<>>
  /\ consoleErrors = 0
  /\ NoLookups
  /\ listening = Startup(<<>>).listening
  /\ staleMarkers = {}
  /\ resets = 0

NextTwoSessions ==
  \/ MoveClick
  \/ GeolocateClick
  \/ PositionSample
  \/ Session2Moves

SpecTwoSessions == InitTwoSessions /\ [][NextTwoSessions]_allVars

(* ------------------------------ helpers ------------------------------- *)
RECURSIVE LedgerTotal(_, _)
LedgerTotal(cs, k) == IF k > Len(cs) THEN 0 ELSE Len(cs[k].coins) + LedgerTotal(cs, k + 1)

\* |playerCoins| + sum over the registered caches of |cache.coins|
TotalCoins(coins, cs) == Len(coins) + LedgerTotal(cs, 1)

\* the ledger createCache gives a new cache of this cell
InitialCoins(cell) == createCache(<<>>, cell)[1].coins

Moves == MoveClick \/ PositionSample

(* ------------------------------- claims ------------------------------- *)
\* C1: every collectCoins or depositCoins call, on a registered cell or not,
\* leaves |playerCoins| + the sum of the registered ledgers' lengths as it was.
C1_Conservation ==
  [][(\E cell \in ClickCells : collectCoins(cell) \/ depositCoins(cell))
       => TotalCoins(playerCoins', caches') = TotalCoins(playerCoins, caches)]_vars

\* a collect and a deposit have both moved coins: the inventory is empty again
\* and some cache holds more coins than it was created with
C1_Witness ==
  /\ transfers >= 2
  /\ playerCoins = <<>>
  /\ \E k \in 1..Len(caches) : Len(caches[k].coins) > Len(InitialCoins(caches[k].cell))

\* C3: collectCoins(cell) on a registered cache with a non-empty ledger appends
\* the whole ledger, in order, to the end of playerCoins and empties the
\* ledger; on an unregistered cell or an empty ledger it changes neither the
\* inventory, nor any ledger, nor the persisted snapshot.
C3_Collect ==
  [][\A cell \in ClickCells :
       collectCoins(cell) =>
         IF has(caches, cell) /\ get(caches, cell).coins # <<>>
           THEN /\ playerCoins' = playerCoins \o get(caches, cell).coins
                /\ has(caches', cell)
                /\ get(caches', cell).coins = <<>>
           ELSE UNCHANGED <<playerCoins, caches, gameState>>]_vars

\* two ledgers were collected one after the other: the inventory starts with
\* the coins of one cache and ends with those of another, both now empty
C3_Witness ==
  /\ Len(playerCoins) >= 2
  /\ playerCoins[1].cell # playerCoins[Len(playerCoins)].cell
  /\ has(caches, playerCoins[1].cell)
  /\ get(caches, playerCoins[1].cell).coins = <<>>
  /\ has(caches, playerCoins[Len(playerCoins)].cell)
  /\ get(caches, playerCoins[Len(playerCoins)].cell).coins = <<>>

\* C4: depositCoins(cell) on a registered cache with a non-empty inventory
\* appends the whole inventory, in order, to the end of that ledger, empties
\* the inventory and changes no other cache; with an empty inventory or an
\* unregistered cell nothing changes.
C4_Deposit ==
  [][\A cell \in ClickCells :
       depositCoins(cell) =>
         IF has(caches, cell) /\ playerCoins # <<>>
           THEN /\ playerCoins' = <<>>
                /\ Len(caches') = Len(caches)
                /\ \A k \in 1..Len(caches) :
                     /\ caches'[k].cell = caches[k].cell
                     /\ caches'[k].coins =
                          IF caches[k].cell = cell
                            THEN caches[k].coins \o playerCoins
                            ELSE caches[k].coins
           ELSE UNCHANGED vars]_vars

\* coins collected from one cache were deposited behind the own coins of
\* another cache
C4_Witness ==
  /\ playerCoins = <<>>
  /\ \E k \in 1..Len(caches) :
       LET own == InitialCoins(caches[k].cell)
           coins == caches[k].coins
       IN /\ own # <<>>
          /\ Len(coins) > Len(own)
          /\ SubSeq(coins, 1, Len(own)) = own
          /\ coins[Len(coins)].cell # caches[k].cell

\* the coins held anywhere: the inventory followed by every registered ledger
RECURSIVE AllLedgers(_, _)
AllLedgers(cs, k) == IF k > Len(cs) THEN <<>> ELSE cs[k].coins \o AllLedgers(cs, k + 1)

AllCoins == playerCoins \o AllLedgers(caches, 1)

\* C2: in every reachable state no (origin cell i, j, serial) occurs twice
\* among the inventory and the registered ledgers.
C2_Uniqueness ==
  \A a \in 1..Len(AllCoins) : \A b \in 1..Len(AllCoins) :
    a # b => AllCoins[a] # AllCoins[b]

\* every cell of the (2 * NEIGHBORHOOD_SIZE + 1)-square around the cell of
\* (lat, lng)
Neighborhood(lat, lng) ==
  LET here == latLngToCell(lat, lng)
  IN {[i |-> here.i + di, j |-> here.j + dj] :
        di \in (0 - NEIGHBORHOOD_SIZE)..NEIGHBORHOOD_SIZE,
        dj \in (0 - NEIGHBORHOOD_SIZE)..NEIGHBORHOOD_SIZE}

\* C5: a move keeps every registered cache registered, with the ledger it
\* had, and keeps the inventory; so a cache that leaves the range and comes
\* back has the ledger it left with.
C5_MoveKeepsLedgers ==
  [][Moves =>
       /\ playerCoins' = playerCoins
       /\ \A k \in 1..Len(caches) :
            /\ has(caches', caches[k].cell)
            /\ get(caches', caches[k].cell).coins = caches[k].coins]_vars

\* after a move, a cache whose ledger is no longer the one it was created
\* with is registered but out of display range
C5_Witness ==
  /\ locationHistory # <<>>
  /\ \E k \in 1..Len(caches) :
       /\ caches[k].cell \notin onMap
       /\ caches[k].coins # InitialCoins(caches[k].cell)

\* C6: loading the snapshot in a fresh session gives a state whose own
\* snapshot is the one loaded: the same caches under the same keys with the
\* saved ledgers, the same inventory, position and history.
C6_SaveLoad ==
  [][(Reload /\ gameState # <<>>) =>
       saveGameState(playerLat', playerLng', playerCoins', locationHistory', caches')
         = gameState]_vars

\* the stored snapshot describes the live state
SnapshotIsLive ==
  /\ gameState # <<>>
  /\ gameState[1].playerLat = playerLat
  /\ gameState[1].playerLng = playerLng
  /\ gameState[1].playerCoins = stringifyCoins(playerCoins)
  /\ gameState[1].locationHistory = locationHistory
  /\ Len(gameState[1].caches) = Len(caches)
  /\ \A k \in 1..Len(caches) :
       /\ gameState[1].caches[k].lat = caches[k].cell.i * TILE_DEGREES
       /\ gameState[1].caches[k].lng = caches[k].cell.j * TILE_DEGREES
       /\ gameState[1].caches[k].memento = toMemento(caches[k].coins)

Transfer == (CollectClick \/ DepositClick) /\ playerCoins' # playerCoins

ConfirmedReset == resetGameState(TRUE)

\* C7 as stated: after a move, a collect or deposit that moved coins, or a
\* confirmed reset, the snapshot exists and equals the live state.
C7_SaveAfterEveryChange ==
  [][(Moves \/ Transfer \/ ConfirmedReset) => SnapshotIsLive']_vars

\* C7 amended: after a move or a transfer the snapshot exists and equals the
\* live state; a confirmed reset removes the snapshot and writes none.
C7_SaveAfterMoveAndTransfer ==
  [][/\ (Moves \/ Transfer) => SnapshotIsLive'
     /\ ConfirmedReset => gameState' = <<>>]_vars

\* a move and a collect have both been saved
C7_Witness ==
  /\ SnapshotIsLive
  /\ locationHistory # <<>>
  /\ playerCoins # <<>>

C9_DisplayedIsNeighborhood ==
  [][Moves =>
       onMap' = cells(caches') \cap Neighborhood(playerLat', playerLng')]_vars

\* C10: createCache for a cell that has a registered cache leaves the
\* registry as it is.
C10_CreateKeepsExisting ==
  \A k \in 1..Len(caches) : createCache(caches, caches[k].cell) = caches

\* a memento of coins: every element carries a cell and a non-negative serial
WellFormedMemento(text) ==
  \A k \in 1..Len(text) : Len(text[k]) = 3 /\ text[k][3] >= 0

\* C11: fromMemento called with a string that is not a memento of well-formed
\* coins fails and leaves the ledger of the cache as it was.
C11_CorruptMementoRejected ==
  [][(FromMementoCall /\ ~WellFormedMemento(aMemento)) =>
       /\ outcome' = "fromMemento threw"
       /\ aCache' = aCache]_cacheVars

\* C13: fromMemento called with the memento toMemento gives for the ledger
\* the cache holds returns and leaves a ledger equal to it: the same length
\* and the same (i, j, serial) at every position.
C13_MementoRoundTrip ==
  [][(FromMementoCall /\ aMemento = toMemento(aCache.coins)) =>
       /\ outcome' = "fromMemento returned"
       /\ Len(aCache'.coins) = Len(aCache.coins)
       /\ \A k \in 1..Len(aCache.coins) : aCache'.coins[k] = aCache.coins[k]]_cacheVars

\* fromMemento has returned with the memento of a ledger of two different
\* coins, and the cache holds that ledger
C13_Witness ==
  /\ outcome = "fromMemento returned"
  /\ aMemento = toMemento(aCache.coins)
  /\ aCache.coins \in Ledgers
  /\ Len(aCache.coins) >= 2
  /\ aCache.coins[1] # aCache.coins[2]

\* C12: a page load that meets a cache entry whose memento is not a memento
\* of well-formed coins registers that cache with the ledger createCache gives
\* its cell, restores every other entry from its own memento, and ends with
\* the listeners registered.
C12_CorruptEntryFallsBack ==
  [][(/\ Reload
      /\ gameState # <<>>
      /\ \E k \in 1..Len(gameState[1].caches) :
           ~WellFormedMemento(gameState[1].caches[k].memento)) =>
       /\ listening'
       /\ \A k \in 1..Len(gameState[1].caches) :
            LET entry == gameState[1].caches[k]
                cell == latLngToCell(entry.lat, entry.lng)
            IN /\ has(caches', cell)
               /\ get(caches', cell).coins =
                    IF WellFormedMemento(entry.memento)
                      THEN parseCoins(entry.memento)
                      ELSE InitialCoins(cell)]_allVars

\* floor(luck(i + "," + j + ",coins") * 10), luck counted in hundredths
CoinCount(cell) == (luck([tag |-> "coins", i |-> cell.i, j |-> cell.j]) * 10) \div 100

\* C14: a cache created by a move or by a reset has a ledger of exactly
\* floor(luck(i,j,coins) * 10) coins, between 0 and 9, whose k-th coin has the
\* cache's cell as origin and serial k, counted from 0.
C14_InitialLedger ==
  [][\A k \in 1..Len(caches') :
       (\/ Moves /\ ~has(caches, caches'[k].cell)
        \/ ConfirmedReset) =>
         LET cell == caches'[k].cell
             coins == caches'[k].coins
         IN /\ Len(coins) = CoinCount(cell)
            /\ Len(coins) \in 0..9
            /\ \A n \in 1..Len(coins) :
                 /\ coins[n].cell = cell
                 /\ coins[n].serial = n - 1]_allVars

\* a move has created a cache outside the start neighborhood with several
\* coins, and another one with none
C14_Witness ==
  /\ \E k \in 1..Len(caches) :
       /\ caches[k].cell \notin Neighborhood(PLAYER_LAT, PLAYER_LNG)
       /\ CoinCount(caches[k].cell) >= 2
       /\ Len(caches[k].coins) = CoinCount(caches[k].cell)
       /\ caches[k].coins[2] = [cell |-> caches[k].cell, serial |-> 1]
  /\ \E k \in 1..Len(caches) :
       /\ caches[k].cell \notin Neighborhood(PLAYER_LAT, PLAYER_LNG)
       /\ CoinCount(caches[k].cell) = 0
       /\ caches[k].coins = <<>>

\* the cells the double loop of the variant's movePlayer visits
UnnamedScanned(lat, lng) ==
  LET new == unnamed_latLngToCell(lat, lng)
  IN {[i |-> new.i + di, j |-> new.j + dj] :
        di \in (0 - NEIGHBORHOOD_SIZE)..NEIGHBORHOOD_SIZE,
        dj \in (0 - NEIGHBORHOOD_SIZE)..NEIGHBORHOOD_SIZE}

\* C15: in the popup-driven variant a move spawns a cache marker for a scanned
\* cell exactly when luck("cache_at_" + i + "," + j) < 0.1 holds for it.
C15_SpawnIsExistenceTest ==
  [][ExampleMove =>
       \A cell \in UnnamedScanned(playerMarker'[1], playerMarker'[2]) :
         (cell \in DOMAIN cacheMarkers') <=> ExistenceTest(cell)]_allVars

\* C15 for main.ts: a move creates caches only for cells that pass the test
\* with the seed "cache_at_" + i + "," + j, and leaves no scanned cell that
\* passes it without a cache.
C15_MainSpawnIsExistenceTest ==
  [][Moves =>
       /\ \A cell \in cells(caches') \ cells(caches) : ExistenceTest(cell)
       /\ \A cell \in Neighborhood(playerLat', playerLng') :
            ExistenceTest(cell) => has(caches', cell)]_allVars

\* C20: in the popup-driven variant, opening the popup of a cache whose coins
\* have been initialized leaves every ledger as it is.
C20_PopupNeverAddsCoins ==
  [][(PopupOpens /\ openPopup'[1] \in DOMAIN cacheCoins) =>
       cacheCoins' = cacheCoins]_allVars

\* C16: two sessions started with no snapshot whose players stand in the same
\* cell, reached by whatever moves, agree for every cell of the neighborhood
\* (that cell included) on whether it has a cache and on the cache's ledger;
\* and a cell registered in both sessions has the same ledger in both.
C16_Deterministic ==
  /\ latLngToCell(playerLat, playerLng) = latLngToCell(playerLat2, playerLng2) =>
       \A cell \in Neighborhood(playerLat, playerLng) :
         /\ has(caches, cell) <=> has(caches2, cell)
         /\ has(caches, cell) => get(caches, cell).coins = get(caches2, cell).coins
  /\ \A cell \in cells(caches) \cap cells(caches2) :
       get(caches, cell).coins = get(caches2, cell).coins

\* both sessions stand in the same cell away from the start, reached by
\* different moves, and a cache created on the way, not at the start, holds
\* coins in both
C16_Witness ==
  /\ latLngToCell(playerLat, playerLng) = latLngToCell(playerLat2, playerLng2)
  /\ latLngToCell(playerLat, playerLng) # latLngToCell(PLAYER_LAT, PLAYER_LNG)
  /\ locationHistory # locationHistory2
  /\ \E cell \in Neighborhood(playerLat, playerLng) \ Neighborhood(PLAYER_LAT, PLAYER_LNG) :
       /\ has(caches, cell)
       /\ has(caches2, cell)
       /\ get(caches, cell).coins # <<>>
       /\ caches # caches2

\* C17: a deposit into the cache that the last collect emptied, that collect
\* having met an empty inventory, leaves the cache with exactly the ledger
\* the collect took, coin by coin in the same order, and an empty inventory.
C17_CollectThenDeposit ==
  [][\A cell \in ClickCells :
       (/\ depositCoins(cell)
        /\ roundTrip # <<>>
        /\ roundTrip[1].cell = cell
        /\ ~roundTrip[1].deposited
        /\ roundTrip[1].inventory = <<>>) =>
          /\ playerCoins' = <<>>
          /\ has(caches', cell)
          /\ get(caches', cell).coins = roundTrip[1].coins]_allVars

\* the deposit has followed the collect of a ledger of several coins, and the
\* cache holds that ledger again
C17_Witness ==
  /\ roundTrip # <<>>
  /\ roundTrip[1].deposited
  /\ roundTrip[1].inventory = <<>>
  /\ Len(roundTrip[1].coins) >= 2
  /\ playerCoins = <<>>
  /\ get(caches, roundTrip[1].cell).coins = roundTrip[1].coins

\* C18: in each program, two results of latLngToCell are the same object
\* exactly when their coordinates floor to the same (i, j).
C18_SameCellSameObject ==
  \A a \in returned : \A b \in returned :
    a.program = b.program => (a.cell = b.cell <=> a.object = b.object)

\* C18 for main.ts alone
C18_MainSameCellSameObject ==
  \A a \in returned : \A b \in returned :
    (a.program = "main" /\ b.program = "main") =>
      (a.cell = b.cell <=> a.object = b.object)


\* the cells of the neighbourhood of the player that pass the existence test
\* and have no cache
Unspawned ==
  {cell \in Neighborhood(playerLat, playerLng) : ExistenceTest(cell) /\ ~has(caches, cell)}

\* C19: when the geolocation watch reports an error, the error is written on
\* the console, the watch is cleared and locationWatcher becomes null, while
\* the position, the history, the inventory, the ledgers, the markers and the
\* snapshot stay as they were and the buttons stay registered; a move button
\* pressed while no watch is on moves the player by one tile, appends the
\* new position to the history and leaves every cell of the new
\* neighbourhood that passes the existence test with a cache.
C19_ErrorStopsTracking ==
  [][/\ PositionErrorLogged =>
          /\ consoleErrors' = consoleErrors + 1
          /\ locationWatcher' = Null
          /\ locationWatcher \notin watches'
          /\ UNCHANGED <<playerLat, playerLng, locationHistory, playerCoins,
                         caches, onMap, gameState, listening>>
     /\ (MoveClick /\ locationWatcher = Null /\ consoleErrors > 0) =>
          /\ <<playerLat' - playerLat, playerLng' - playerLng>> \in MoveDeltas
          /\ locationHistory' = Append(locationHistory, <<playerLat', playerLng'>>)
          /\ locationWatcher' = Null
          /\ Unspawned' = {}]_allVars

\* tracking was on and reported a position, an error ended it, and a move
\* button has moved the player one tile from the reported position
C19_Witness ==
  /\ consoleErrors > 0
  /\ locationWatcher = Null
  /\ watches = {}
  /\ Len(locationHistory) = 2
  /\ locationHistory[1] \in GeoSamples
  /\ <<playerLat - locationHistory[1][1], playerLng - locationHistory[1][2]>> \in MoveDeltas
  /\ locationHistory[2] = <<playerLat, playerLng>>


\* C21: in the popup-driven variant no call of movePlayer makes a marker for
\* a cell that already has one: over any sequence of calls every cell has at
\* most one marker made by spawnCache.
C21_SpawnedAtMostOnce ==
  \A cell \in DOMAIN cacheMarkers : cacheMarkers[cell] <= 1

\* C25: in the popup-driven variant state.playerPoints equals
\* state.playerInventory.length in every reachable state.
C25_PointsAreInventoryLength == playerPoints = Len(playerInventory)

\* coins were collected from a popup before and after a reset: the reset took
\* the first coins out of the game and emptied state.cacheCoins, the collect
\* after it stored the popup's array again, and the player holds a coin
C25_Witness ==
  /\ openPopup # <<>>
  /\ Len(playerInventory) >= 1
  /\ playerPoints >= 1
  /\ DOMAIN cacheCoins = {openPopup[1]}
  /\ cacheCoins[openPopup[1]] = popupArray
  /\ \A k \in 1..Len(playerInventory) : playerInventory[k].original = openPopup[1]
  /\ \A k \in 1..Len(popupArray) : popupArray[k].original = openPopup[1]
  /\ Len(popupArray) + Len(playerInventory) <
       (luck([tag |-> "coins", i |-> openPopup[1].i, j |-> openPopup[1].j]) * 10) \div 100


\* C22: after a confirmed reset the state is the state of a start with no
\* snapshot: position, inventory, history, registry with its initial ledgers
\* and displayed caches as at a fresh start, tracking off, no snapshot
\* stored, and no marker on the map of a cache that existed before the reset.
C22_ResetIsFreshStart ==
  [][(ResetClickMarkers /\ resets' # resets) =>
       LET s == Startup(<<>>)
       IN /\ playerLat' = s.playerLat
          /\ playerLng' = s.playerLng
          /\ playerCoins' = s.playerCoins
          /\ locationHistory' = s.locationHistory
          /\ caches' = s.caches
          /\ onMap' = s.onMap
          /\ locationWatcher' = Null
          /\ gameState' = <<>>
          /\ staleMarkers' = {}]_allVars


\* C22 without the markers: after a confirmed reset the variables of main.ts
\* and the stored snapshot are those of a start with no snapshot.
C22_ResetVariablesAreFresh ==
  [][(ResetClickMarkers /\ resets' # resets) =>
       LET s == Startup(<<>>)
       IN /\ playerLat' = s.playerLat
          /\ playerLng' = s.playerLng
          /\ playerCoins' = s.playerCoins
          /\ locationHistory' = s.locationHistory
          /\ caches' = s.caches
          /\ onMap' = s.onMap
          /\ locationWatcher' = Null
          /\ gameState' = <<>>]_allVars


\* C23: in every state reached from a start with no snapshot by moves,
\* collects, deposits, resets and reloads of the snapshots the page wrote,
\* every cache of the registry belongs to a cell that passes the existence
\* test, and the registry holds at most one cache per cell.
C23_RegisteredCellsPassTest ==
  /\ \A k \in 1..Len(caches) : ExistenceTest(caches[k].cell)
  /\ \A a \in 1..Len(caches) : \A b \in 1..Len(caches) :
       a # b => caches[a].cell # caches[b].cell

\* C23, second half alone: the registry holds at most one cache per cell.
C23_OneCachePerCell ==
  \A a \in 1..Len(caches) : \A b \in 1..Len(caches) :
    a # b => caches[a].cell # caches[b].cell


\* C24: under any sequence of geolocate clicks, position samples, position
\* errors, moves and resets at most one geolocation watch is registered,
\* locationWatcher is null when none is and the id of the registered watch
\* otherwise; every geolocate click turns tracking on when it was off and off
\* when it was on; every confirmed reset leaves tracking off with no watch
\* registered.
C24_OneWatch ==
  /\ [](/\ Cardinality(watches) <= 1
        /\ locationWatcher = Null <=> watches = {}
        /\ locationWatcher # Null => watches = {locationWatcher})
  /\ [][GeolocateClick =>
          /\ locationWatcher = Null => locationWatcher' # Null
          /\ locationWatcher # Null => locationWatcher' = Null]_allVars
  /\ [][(ResetClickMarkers /\ resets' # resets) =>
          /\ locationWatcher' = Null
          /\ watches' = {}]_allVars

\* tracking is on again after an error ended it once and a reset has been
\* confirmed
C24_Witness ==
  /\ consoleErrors >= 1
  /\ resets >= 1
  /\ locationWatcher # Null
  /\ watches = {locationWatcher}

====
